---- MODULE Spec2Model ----
(***************************************************************************)
(* Redaction / reconstruction pipeline of the chatbot backend:             *)
(*   anonymize_text (anonymization.py) replaces detected entity spans by   *)
(*   placeholders <TYPE_n>, process_request (app.py) sends the redacted    *)
(*   prompt to the LLM and puts the original values back in the answer.    *)
(* Strings are sequences of one-character strings.                         *)
(***************************************************************************)
EXTENDS Integers, Sequences, FiniteSets, TLC

VARIABLES
    pc,                 \* per request: "idle", "anonymize", "reconstruct", "done", "failed"
    original_prompt,    \* app.py: original_prompt / anonymization.py: text
    analysis,           \* anonymization.py: analysis, after the sort of line 149
    pos,                \* number of entities of analysis the loop of line 156 has processed
    entity_counters,    \* anonymization.py: entity_counters (one table per call)
    existing_mappings,  \* anonymization.py: existing_mappings
    updated_analysis,   \* anonymization.py: updated_analysis / app.py: mapping
    anonymized_text,    \* anonymization.py: anonymized_text / app.py: anonymized_prompt
    spliced,            \* history: the value existing_mappings[key] of line 172, per processed entity
    llm_raw,            \* app.py: llm_response as returned by send_to_llm
    llm_response,       \* app.py: llm_response while it is rewritten (lines 183-188)
    item                \* index of the next mapping item of the loop of line 183

vars == <<pc, original_prompt, analysis, pos, entity_counters, existing_mappings,
          updated_analysis, anonymized_text, spliced, llm_raw, llm_response, item>>

----------------------------------------------------------------------------
(* Bounds *)

\* Largest number of detections the analyzer returns for one prompt.
MaxSpans == 2

\* The requests in flight (threads of the Flask server).
Requests == {"r1", "r2"}

----------------------------------------------------------------------------
(* Characters *)

UpperLetters == {"P", "L", "E", "R", "S", "O", "N", "H", "C", "J", "D"}
LowerLetters == {"x", "o", "n", "t", "a", "c", "h", "e"}
DigitChars == <<"0", "1", "2", "3", "4", "5", "6", "7", "8", "9">>
Digits == {DigitChars[i] : i \in DOMAIN DigitChars}

\* The characters the regex class \w matches.
WordChars == UpperLetters \cup LowerLetters \cup Digits \cup {"_"}

\* str(n) for n >= 0
RECURSIVE Decimal(_)
Decimal(n) ==
    IF n < Len(DigitChars) THEN <<DigitChars[n + 1]>>
    ELSE Decimal(n \div Len(DigitChars)) \o <<DigitChars[(n % Len(DigitChars)) + 1]>>

Min(a, b) == IF a < b THEN a ELSE b

\* Python s[a:b] for a, b >= 0: both ends are clamped to len(s).
Slice(s, a, b) ==
    IF Min(a, Len(s)) >= Min(b, Len(s)) THEN <<>>
    ELSE SubSeq(s, Min(a, Len(s)) + 1, Min(b, Len(s)))

\* Python s[:b] and s[a:]
Upto(s, b) == Slice(s, 0, b)
From(s, a) == Slice(s, a, Len(s))

----------------------------------------------------------------------------
(* anonymize_text *)

\* f"<{entity_type}_{counter}>"
LabelDash(type, n) == <<"<">> \o type \o <<"-">> \o Decimal(n) \o <<">">>
Label(type, n) == <<"<">> \o type \o <<"_">> \o Decimal(n) \o <<">">>

\* key = (entity_text, entity.entity_type)
KeyByOccurrence(entity_text, entity) == <<entity_text, entity.entity_type, entity.start>>
KeyOf(entity_text, entity) == <<entity_text, entity.entity_type>>

\* entity_counters[entity.entity_type] += 1 : the value after the increment
RECURSIVE SumCounters(_, _)
SumCounters(counters, types) ==
    IF types = {} THEN 0
    ELSE LET t == CHOOSE x \in types : TRUE
         IN counters[t] + SumCounters(counters, types \ {t})
NextCounterGlobal(counters, type) == SumCounters(counters, DOMAIN counters) + 1
NextCounter(counters, type) == counters[type] + 1

EmptyMap == [k \in {} |-> <<>>]

Extend(m, k, v) == [x \in DOMAIN m \cup {k} |-> IF x = k THEN v ELSE m[x]]

\* The order line 149 leaves the detections in: by start, descending. The sort
\* is stable and the analyzer's order is arbitrary, so detections with the
\* same start come in any order.
OrdersAscending(dets) ==
    {q \in [1..Cardinality(dets) -> dets] :
        /\ \A i, j \in DOMAIN q : i # j => q[i] # q[j]
        /\ \A i, j \in DOMAIN q : i < j => q[i].start <= q[j].start}
Orders(dets) ==
    {q \in [1..Cardinality(dets) -> dets] :
        /\ \A i, j \in DOMAIN q : i # j => q[i] # q[j]
        /\ \A i, j \in DOMAIN q : i < j => q[i].start >= q[j].start}

\* One iteration of the loop of lines 156-174 on the locals st of one call.
LoopBody(text, entity, st) ==
    LET entity_text == Slice(text, entity.start, entity.end)
        key == KeyOf(entity_text, entity)
        isNew == key \notin DOMAIN st.existing_mappings
        n == NextCounter(st.entity_counters, entity.entity_type)
        anonymized_label == Label(entity.entity_type, n)
        counters1 == IF isNew
                     THEN [st.entity_counters EXCEPT ![entity.entity_type] = n]
                     ELSE st.entity_counters
        existing1 == IF isNew
                     THEN Extend(st.existing_mappings, key, anonymized_label)
                     ELSE st.existing_mappings
        updated1 == IF isNew
                    THEN Append(st.updated_analysis,
                                [type |-> entity.entity_type,
                                 original |-> entity_text,
                                 anonymized |-> anonymized_label])
                    ELSE st.updated_analysis
    IN [entity_counters |-> counters1,
        existing_mappings |-> existing1,
        updated_analysis |-> updated1,
        anonymized_text |-> Upto(st.anonymized_text, entity.start)
                            \o existing1[key]
                            \o From(st.anonymized_text, entity.end),
        spliced |-> existing1[key]]

\* anonymize_text as a function of the prompt and the sorted analysis: the
\* locals start fresh in every call (lines 151-154).
FreshLocals(text, types) ==
    [entity_counters |-> [t \in types |-> 0],
     existing_mappings |-> EmptyMap,
     updated_analysis |-> <<>>,
     anonymized_text |-> text,
     spliced |-> <<>>]

RECURSIVE AnonymizeFrom(_, _, _, _)
AnonymizeFrom(text, sorted, i, st) ==
    IF i > Len(sorted) THEN st
    ELSE AnonymizeFrom(text, sorted, i + 1, LoopBody(text, sorted[i], st))

----------------------------------------------------------------------------
(* process_request: recontextualization *)

\* Whether a match of <\w+_\d+> starts at s[i]; TokenEnd is the index of its ">".
WordRunEnd(s, i) ==
    IF \E j \in i..Len(s) : s[j] \notin WordChars
    THEN (CHOOSE j \in i..Len(s) :
            /\ s[j] \notin WordChars
            /\ \A k \in i..(j - 1) : s[k] \in WordChars)
    ELSE Len(s) + 1

TokenEnd(s, i) == WordRunEnd(s, i + 1)

TokenAt(s, i) ==
    /\ i \in 1..Len(s)
    /\ s[i] = "<"
    /\ LET j == TokenEnd(s, i)
       IN /\ j <= Len(s)
          /\ s[j] = ">"
          /\ \E k \in (i + 2)..(j - 2) :
                /\ s[k] = "_"
                /\ \A l \in (k + 1)..(j - 1) : s[l] \in Digits

\* re.sub(r'<\w+_\d+>', '', s)
RECURSIVE StripFrom(_, _)
StripFrom(s, i) ==
    IF i > Len(s) THEN <<>>
    ELSE IF TokenAt(s, i) THEN StripFrom(s, TokenEnd(s, i) + 1)
    ELSE <<s[i]>> \o StripFrom(s, i + 1)

StripTokens(s) == StripFrom(s, 1)

HasToken(s) == \E i \in 1..Len(s) : TokenAt(s, i)

\* The characters a backslash followed by a letter stands for in a replacement
\* template (of the letters of this model).
ControlEscapes == [n |-> "\n", t |-> "\t", a |-> "BEL"]

\* The replacement template of re.sub: repl is parsed for backslash escapes
\* before any match is looked for. A backslash at the end, before an ASCII letter
\* that is no escape, or before a digit (a group reference: the pattern has no
\* group) raises re.error; \\ is one backslash; a backslash before any other
\* character stays with that character.
BadTemplate == [ok |-> FALSE, out |-> <<>>]

RECURSIVE TemplateFrom(_, _, _)
TemplateFrom(t, i, acc) ==
    IF i > Len(t) THEN [ok |-> TRUE, out |-> acc]
    ELSE IF t[i] # "\\" THEN TemplateFrom(t, i + 1, Append(acc, t[i]))
    ELSE IF i = Len(t) THEN BadTemplate
    ELSE LET c == t[i + 1]
         IN IF c = "\\" THEN TemplateFrom(t, i + 2, Append(acc, "\\"))
            ELSE IF c \in DOMAIN ControlEscapes
                 THEN TemplateFrom(t, i + 2, Append(acc, ControlEscapes[c]))
            ELSE IF c \in UpperLetters \cup LowerLetters \cup Digits THEN BadTemplate
            ELSE TemplateFrom(t, i + 2, acc \o <<"\\", c>>)

ParseTemplate(t) == TemplateFrom(t, 1, <<>>)

\* re.sub(re.escape(lit), rep, s) for an expanded template rep: the leftmost
\* non-overlapping occurrences of lit, each replaced, the result not scanned again.
OccursAt(s, lit, i) ==
    /\ i + Len(lit) - 1 <= Len(s)
    /\ SubSeq(s, i, i + Len(lit) - 1) = lit

RECURSIVE ReplaceAllFrom(_, _, _, _)
ReplaceAllFrom(s, lit, rep, i) ==
    IF i > Len(s) THEN <<>>
    ELSE IF OccursAt(s, lit, i) THEN rep \o ReplaceAllFrom(s, lit, rep, i + Len(lit))
    ELSE <<s[i]>> \o ReplaceAllFrom(s, lit, rep, i + 1)

ReplaceAll(s, lit, rep) == ReplaceAllFrom(s, lit, rep, 1)

----------------------------------------------------------------------------
(* Inputs *)

PlainX == <<"x">>
Backslash == <<"\\">>
TokenPER1 == <<"<", "P", "E", "R", "_", "1", ">">>

\* The pieces prompts are made of: a plain letter, a backslash, and a piece of
\* placeholder syntax.
Fragments == {PlainX, Backslash, TokenPER1}

\* A prompt with the offsets its detections start and end at. A prompt is a
\* non-blank string (app.py lines 146-150 reject anything else).
Prompts ==
    {[text |-> f, cuts |-> {0, Len(f)}] : f \in Fragments}
    \cup {[text |-> f \o g, cuts |-> {0, Len(f), Len(f) + Len(g)}] :
            f \in Fragments, g \in Fragments}

TypePER == <<"P", "E", "R">>
TypeLOC == <<"L", "O", "C">>
TypePERSON == <<"P", "E", "R", "S", "O", "N">>
TypePHONE == <<"P", "H", "O", "N", "E">>
\* Two of the entity types of line 139, and the two of the example.
EntityTypes == {TypePER, TypeLOC, TypePERSON, TypePHONE}

\* "Contact John Doe at 555-1234." with PERSON[8,16] and PHONE[20,28]
ExampleText ==
    <<"C", "o", "n", "t", "a", "c", "t", " ", "J", "o", "h", "n", " ", "D", "o", "e",
      " ", "a", "t", " ", "5", "5", "5", "-", "1", "2", "3", "4", ".">>
JohnDoe == <<"J", "o", "h", "n", " ", "D", "o", "e">>
PhoneNumber == <<"5", "5", "5", "-", "1", "2", "3", "4">>
ExamplePerson ==
    [entity_type |-> TypePERSON, start |-> Len(<<"C", "o", "n", "t", "a", "c", "t", " ">>),
     end |-> Len(<<"C", "o", "n", "t", "a", "c", "t", " ">> \o JohnDoe)]
ExamplePhone ==
    [entity_type |-> TypePHONE, start |-> ExamplePerson.end + Len(<<" ", "a", "t", " ">>),
     end |-> ExamplePerson.end + Len(<<" ", "a", "t", " ">> \o PhoneNumber)]
ExamplePrompt == [text |-> ExampleText, cuts |-> {}]

\* analyzer.analyze (lines 141-146): the detector is external, and returns any
\* set of detections of the prompt: overlapping ones, ones with the same range
\* and another type, ones that end past the end of the text.
Candidates(prompt) ==
    {[entity_type |-> t, start |-> s, end |-> e] :
        t \in {TypePER, TypeLOC}, s \in prompt.cuts,
        e \in {c \in prompt.cuts \cup {Len(prompt.text) + 1} : TRUE}}

Analyze(prompt) ==
    IF prompt = ExamplePrompt THEN {{ExamplePerson, ExamplePhone}}
    ELSE {S \in SUBSET {d \in Candidates(prompt) : d.start < d.end} :
            Cardinality(S) <= MaxSpans}

\* The prompts and detections of the runs with two requests in flight.
IsoPrompts == {p \in Prompts : p.text \in {PlainX \o PlainX, PlainX \o Backslash}}
AnalyzeIso(prompt) ==
    {S \in Analyze(prompt) :
        \A d \in S : d.entity_type = TypePER /\ d.end <= Len(prompt.text)}

\* send_to_llm returns whatever the model answers (or an error text): the
\* prompt unaltered, the prompt with a placeholder the mapping does not have,
\* such a placeholder alone, a placeholder of the mapping twice.
Hallucinated == <<"<", "L", "O", "C", "_", "9", ">">>
Answers(prompt, placeholders) ==
    {prompt, prompt \o Hallucinated, Hallucinated}
    \cup {ph \o ph : ph \in placeholders}

----------------------------------------------------------------------------
(* State machine *)

\* The call whose locals request r uses: every call of anonymize_text makes
\* its own (lines 151-154).
CounterScopeShared(r) == "r1"
CounterScope(r) == r

Init ==
    /\ pc = [r \in Requests |-> "idle"]
    /\ original_prompt = [r \in Requests |-> <<>>]
    /\ analysis = [r \in Requests |-> <<>>]
    /\ pos = [r \in Requests |-> 0]
    /\ entity_counters = [r \in Requests |-> [t \in EntityTypes |-> 0]]
    /\ existing_mappings = [r \in Requests |-> EmptyMap]
    /\ updated_analysis = [r \in Requests |-> <<>>]
    /\ anonymized_text = [r \in Requests |-> <<>>]
    /\ spliced = [r \in Requests |-> <<>>]
    /\ llm_raw = [r \in Requests |-> <<>>]
    /\ llm_response = [r \in Requests |-> <<>>]
    /\ item = [r \in Requests |-> 0]

\* process_request up to the call of anonymize_text, and anonymize_text up to
\* its loop: the analysis, the sort, the fresh locals.
Start(r, prompt, dets) ==
    /\ \E sorted \in Orders(dets) :
        LET fresh == FreshLocals(prompt.text, EntityTypes)
        IN /\ pc' = [pc EXCEPT ![r] = "anonymize"]
           /\ original_prompt' = [original_prompt EXCEPT ![r] = prompt.text]
           /\ analysis' = [analysis EXCEPT ![r] = sorted]
           /\ pos' = [pos EXCEPT ![r] = 0]
           /\ entity_counters' =
                [entity_counters EXCEPT ![CounterScope(r)] = fresh.entity_counters]
           /\ existing_mappings' =
                [existing_mappings EXCEPT ![r] = fresh.existing_mappings]
           /\ updated_analysis' = [updated_analysis EXCEPT ![r] = fresh.updated_analysis]
           /\ anonymized_text' = [anonymized_text EXCEPT ![r] = fresh.anonymized_text]
           /\ spliced' = [spliced EXCEPT ![r] = fresh.spliced]
    /\ UNCHANGED <<llm_raw, llm_response, item>>

Receive(r) ==
    /\ pc[r] = "idle"
    /\ \E prompt \in Prompts \cup {ExamplePrompt} :
        \E dets \in Analyze(prompt) : Start(r, prompt, dets)

ReceiveIso(r) ==
    /\ pc[r] = "idle"
    /\ \E prompt \in IsoPrompts :
        \E dets \in AnalyzeIso(prompt) : Start(r, prompt, dets)

\* One iteration of the loop of anonymize_text.
ProcessEntity(r) ==
    /\ pc[r] = "anonymize"
    /\ pos[r] < Len(analysis[r])
    /\ LET st == [entity_counters |-> entity_counters[CounterScope(r)],
                  existing_mappings |-> existing_mappings[r],
                  updated_analysis |-> updated_analysis[r],
                  anonymized_text |-> anonymized_text[r]]
           new == LoopBody(original_prompt[r], analysis[r][pos[r] + 1], st)
       IN /\ entity_counters' =
                [entity_counters EXCEPT ![CounterScope(r)] = new.entity_counters]
          /\ existing_mappings' = [existing_mappings EXCEPT ![r] = new.existing_mappings]
          /\ updated_analysis' = [updated_analysis EXCEPT ![r] = new.updated_analysis]
          /\ anonymized_text' = [anonymized_text EXCEPT ![r] = new.anonymized_text]
          /\ spliced' = [spliced EXCEPT ![r] = Append(@, new.spliced)]
    /\ pos' = [pos EXCEPT ![r] = @ + 1]
    /\ UNCHANGED <<pc, original_prompt, analysis, llm_raw, llm_response, item>>

\* anonymize_text returns (line 176); process_request sends the anonymized
\* prompt to the LLM (lines 173-177).
SendToLLM(r) ==
    /\ pc[r] = "anonymize"
    /\ pos[r] = Len(analysis[r])
    /\ \E answer \in Answers(anonymized_text[r],
                             {updated_analysis[r][i].anonymized :
                                 i \in DOMAIN updated_analysis[r]}) :
        /\ llm_raw' = [llm_raw EXCEPT ![r] = answer]
        /\ llm_response' = [llm_response EXCEPT ![r] = answer]
    /\ item' = [item EXCEPT ![r] = 1]
    /\ pc' = [pc EXCEPT ![r] = "reconstruct"]
    /\ UNCHANGED <<original_prompt, analysis, pos, entity_counters, existing_mappings,
                   updated_analysis, anonymized_text, spliced>>

\* One iteration of the loop of lines 183-185. A replacement template that
\* does not parse raises re.error, which line 200 turns into the 500 answer.
ReplaceItem(r) ==
    /\ pc[r] = "reconstruct"
    /\ item[r] <= Len(updated_analysis[r])
    /\ LET entry == updated_analysis[r][item[r]]
           template == ParseTemplate(entry.original)
       IN IF template.ok
          THEN /\ llm_response' =
                    [llm_response EXCEPT
                        ![r] = ReplaceAll(@, entry.anonymized, template.out)]
               /\ item' = [item EXCEPT ![r] = @ + 1]
               /\ pc' = pc
          ELSE /\ pc' = [pc EXCEPT ![r] = "failed"]
               /\ UNCHANGED <<llm_response, item>>
    /\ UNCHANGED <<original_prompt, analysis, pos, entity_counters, existing_mappings,
                   updated_analysis, anonymized_text, spliced, llm_raw>>

\* The cleanup of line 188 and the answer of lines 194-198.
Cleanup(r) ==
    /\ pc[r] = "reconstruct"
    /\ item[r] > Len(updated_analysis[r])
    /\ llm_response' = [llm_response EXCEPT ![r] = StripTokens(@)]
    /\ pc' = [pc EXCEPT ![r] = "done"]
    /\ UNCHANGED <<original_prompt, analysis, pos, entity_counters, existing_mappings,
                   updated_analysis, anonymized_text, spliced, llm_raw, item>>

\* One request through the whole of process_request.
Next ==
    \/ Receive("r1")
    \/ ProcessEntity("r1")
    \/ SendToLLM("r1")
    \/ ReplaceItem("r1")
    \/ Cleanup("r1")

Spec == Init /\ [][Next]_vars

\* Calls of anonymize_text of two requests, interleaved.
NextIso ==
    \/ \E r \in Requests : ReceiveIso(r)
    \/ \E r \in Requests : ProcessEntity(r)

SpecIso == Init /\ [][NextIso]_vars

----------------------------------------------------------------------------
(* Properties *)

Started(r) == pc[r] # "idle"
LoopDone(r) == Started(r) /\ pos[r] = Len(analysis[r])
Returned(r) == pc[r] \in {"reconstruct", "done", "failed"}
Finished(r) == pc[r] \in {"done", "failed"}
Unaltered(r) == llm_raw[r] = anonymized_text[r]

ValidSpans(r) ==
    \A i \in DOMAIN analysis[r] :
        /\ 0 <= analysis[r][i].start
        /\ analysis[r][i].start < analysis[r][i].end
        /\ analysis[r][i].end <= Len(original_prompt[r])

Overlap(a, b) == a.start < b.end /\ b.start < a.end

NonOverlapping(q) == \A i, j \in DOMAIN q : i # j => ~Overlap(q[i], q[j])

WellFormed(r) == ValidSpans(r) /\ NonOverlapping(analysis[r])

\* The characters of the prompt a detection covers.
Covered(r, d) == SubSeq(original_prompt[r], d.start + 1, Min(d.end, Len(original_prompt[r])))

\* The entries of the mapping for the value and type of detection d.
EntriesFor(r, d) ==
    {k \in DOMAIN updated_analysis[r] :
        /\ updated_analysis[r][k].original = Covered(r, d)
        /\ updated_analysis[r][k].type = d.entity_type}

PlaceholderFor(r, d) ==
    updated_analysis[r][CHOOSE k \in EntriesFor(r, d) : TRUE].anonymized

\* C1: with valid non-overlapping spans and the answer of the LLM equal to the
\* redacted text, reconstruction ends without error and yields the prompt.
C1_RoundTrip ==
    \A r \in Requests :
        (Finished(r) /\ WellFormed(r) /\ Unaltered(r))
            => (pc[r] = "done" /\ llm_response[r] = original_prompt[r])

\* C3: the spans the substitution loop works through never overlap (stated
\* for detections that are all valid spans of the prompt).
C3_NoOverlap ==
    \A r \in Requests : (Started(r) /\ ValidSpans(r)) => NonOverlapping(analysis[r])

OutOfRange(r) ==
    \E i \in DOMAIN analysis[r] : analysis[r][i].end > Len(original_prompt[r])

\* C5: a call of anonymize_text with a span that ends past the end of the text
\* does not return: no redacted text and no mapping reach process_request.
C5_OutOfRangeFails ==
    \A r \in Requests : (Started(r) /\ OutOfRange(r)) => ~Returned(r)

\* C6: reconstruction never ends in an error, and its result holds no token of
\* placeholder syntax.
C6_StripsWithoutError ==
    \A r \in Requests :
        /\ pc[r] # "failed"
        /\ pc[r] = "done" => ~HasToken(llm_response[r])

\* C10: when the answer is the placeholder of the only mapping entry, once or
\* twice, and the original holds no backslash, the result is the original, once
\* or twice: what was put in is not changed by a later step.
C10_NoRescan ==
    \A r \in Requests :
        (/\ pc[r] = "done"
         /\ Len(updated_analysis[r]) = 1
         /\ \A i \in DOMAIN updated_analysis[r][1].original :
                updated_analysis[r][1].original[i] # "\\")
        => LET entry == updated_analysis[r][1]
           IN /\ llm_raw[r] = entry.anonymized => llm_response[r] = entry.original
              /\ llm_raw[r] = entry.anonymized \o entry.anonymized
                    => llm_response[r] = entry.original \o entry.original

\* The detections of request r that have the value and type of mapping entry k.
OccurrencesOf(r, k) ==
    {i \in DOMAIN analysis[r] :
        /\ Covered(r, analysis[r][i]) = updated_analysis[r][k].original
        /\ analysis[r][i].entity_type = updated_analysis[r][k].type}

RECURSIVE SumOver(_, _)
SumOver(f, S) ==
    IF S = {} THEN 0
    ELSE LET x == CHOOSE y \in S : TRUE IN f[x] + SumOver(f, S \ {x})

\* Where the placeholder of detection i starts in the redacted text: its start,
\* moved by what the placeholders to its left add or take.
ShiftedStart(r, i) ==
    analysis[r][i].start
    + SumOver([j \in DOMAIN analysis[r] |->
                    Len(PlaceholderFor(r, analysis[r][j]))
                    - (analysis[r][j].end - analysis[r][j].start)],
              {j \in DOMAIN analysis[r] : analysis[r][j].start < analysis[r][i].start})

\* C2: every processed detection has exactly one mapping entry for its value
\* and type, the placeholder spliced for it is that entry's, and with valid
\* non-overlapping spans the redacted text holds that placeholder at the place
\* of every occurrence.
C2_Canonical ==
    \A r \in Requests :
        Started(r) =>
            /\ \A i \in 1..pos[r] :
                /\ Cardinality(EntriesFor(r, analysis[r][i])) = 1
                /\ spliced[r][i] = PlaceholderFor(r, analysis[r][i])
            /\ (LoopDone(r) /\ WellFormed(r)) =>
                \A i \in DOMAIN analysis[r] :
                    SubSeq(anonymized_text[r], ShiftedStart(r, i) + 1,
                           ShiftedStart(r, i) + Len(PlaceholderFor(r, analysis[r][i])))
                        = PlaceholderFor(r, analysis[r][i])

C2_Witness ==
    \E r \in Requests :
        /\ LoopDone(r) /\ WellFormed(r)
        /\ Len(updated_analysis[r]) = 1
        /\ \E i, j \in DOMAIN analysis[r] : i # j /\ spliced[r][i] = spliced[r][j]

\* The redacted text as the prompt read left to right from offset o: at the
\* start of a span that span's placeholder, then on from its end; elsewhere the
\* character of the prompt.
RECURSIVE ExpectedFrom(_, _)
ExpectedFrom(r, o) ==
    IF o >= Len(original_prompt[r]) THEN <<>>
    ELSE IF \E i \in DOMAIN analysis[r] : analysis[r][i].start = o
    THEN LET d == analysis[r][CHOOSE i \in DOMAIN analysis[r] : analysis[r][i].start = o]
         IN PlaceholderFor(r, d) \o ExpectedFrom(r, d.end)
    ELSE <<original_prompt[r][o + 1]>> \o ExpectedFrom(r, o + 1)

IsPlaceholder(r, ph, type) ==
    \E n \in 1..Len(analysis[r]) :
        ph = <<"<">> \o type \o <<"_">> \o Decimal(n) \o <<">">>

\* C4: with valid non-overlapping spans, the text the loop ends with is the
\* prompt with each span replaced by its placeholder and all else kept.
C4_OffsetShift ==
    \A r \in Requests :
        (LoopDone(r) /\ WellFormed(r)) =>
            /\ anonymized_text[r] = ExpectedFrom(r, 0)
            /\ \A i \in DOMAIN analysis[r] :
                IsPlaceholder(r, PlaceholderFor(r, analysis[r][i]), analysis[r][i].entity_type)

C4_Witness ==
    \E r \in Requests :
        /\ LoopDone(r) /\ WellFormed(r)
        /\ Len(updated_analysis[r]) >= 2
        /\ \E i \in DOMAIN analysis[r] :
            Len(PlaceholderFor(r, analysis[r][i])) # analysis[r][i].end - analysis[r][i].start
        /\ Len(anonymized_text[r]) > Len(original_prompt[r])

\* What the call of request r builds, run alone from fresh locals, from the
\* entities it has processed so far.
Alone(r) ==
    AnonymizeFrom(original_prompt[r], SubSeq(analysis[r], 1, pos[r]), 1,
                  FreshLocals(original_prompt[r], EntityTypes))

\* C7: whatever the interleaving of the calls, the redacted text and the
\* mapping of each call are those the same call builds alone.

C7_Isolation ==
    \A r \in Requests :
        Started(r) =>
            /\ anonymized_text[r] = Alone(r).anonymized_text
            /\ updated_analysis[r] = Alone(r).updated_analysis

C7_Witness ==
    /\ \A r \in Requests : pc[r] = "anonymize" /\ pos[r] >= 1 /\ pos[r] < Len(analysis[r])
    /\ \A r \in Requests : Len(updated_analysis[r]) >= 1

\* The example's expected results.
ExampleRedacted ==
    <<"C", "o", "n", "t", "a", "c", "t", " ">>
    \o <<"<", "P", "E", "R", "S", "O", "N", "_", "1", ">">>
    \o <<" ", "a", "t", " ">>
    \o <<"<", "P", "H", "O", "N", "E", "_", "1", ">">>
    \o <<".">>
PersonEntry ==
    [type |-> TypePERSON, original |-> JohnDoe,
     anonymized |-> <<"<", "P", "E", "R", "S", "O", "N", "_", "1", ">">>]
PhoneEntry ==
    [type |-> TypePHONE, original |-> PhoneNumber,
     anonymized |-> <<"<", "P", "H", "O", "N", "E", "_", "1", ">">>]

IsExample(r) ==
    /\ Started(r)
    /\ original_prompt[r] = ExampleText
    /\ {analysis[r][i] : i \in DOMAIN analysis[r]} = {ExamplePerson, ExamplePhone}

ExampleHolds(r, mapping) ==
    /\ LoopDone(r) => anonymized_text[r] = ExampleRedacted /\ updated_analysis[r] = mapping
    /\ pc[r] # "failed"
    /\ (pc[r] = "done" /\ Unaltered(r)) => llm_response[r] = ExampleText

\* C8 as stated: the example's redacted text, the mapping with the PERSON entry
\* first, and the round trip.
C8_ExampleAsStated ==
    \A r \in Requests : IsExample(r) => ExampleHolds(r, <<PersonEntry, PhoneEntry>>)

\* C8 amended: the example's redacted text, the mapping with the PHONE entry
\* first (entries are appended back to front), and the round trip.
C8_Example ==
    \A r \in Requests : IsExample(r) => ExampleHolds(r, <<PhoneEntry, PersonEntry>>)

C8_Witness ==
    \E r \in Requests :
        /\ IsExample(r) /\ pc[r] = "done" /\ Unaltered(r)
        /\ llm_response[r] = ExampleText

\* The largest start among the occurrences of mapping entry k.
Rightmost(r, k) ==
    CHOOSE m \in {analysis[r][i].start : i \in OccurrencesOf(r, k)} :
        \A i \in OccurrencesOf(r, k) : analysis[r][i].start <= m

SameTypeUpTo(r, k) ==
    {j \in 1..k : updated_analysis[r][j].type = updated_analysis[r][k].type}

\* C9: the placeholders of a type carry 1, 2, ... in the order of the mapping,
\* there are as many as the type has distinct values, and a value whose
\* rightmost occurrence lies further right comes first.
C9_CounterOrder ==
    \A r \in Requests :
        Started(r) =>
            /\ \A k \in DOMAIN updated_analysis[r] :
                updated_analysis[r][k].anonymized =
                    <<"<">> \o updated_analysis[r][k].type \o <<"_">>
                    \o Decimal(Cardinality(SameTypeUpTo(r, k))) \o <<">">>
            /\ LoopDone(r) =>
                /\ \A t \in EntityTypes :
                    Cardinality({k \in DOMAIN updated_analysis[r] :
                                    updated_analysis[r][k].type = t})
                    = Cardinality({Covered(r, analysis[r][i]) :
                                    i \in {j \in DOMAIN analysis[r] :
                                            analysis[r][j].entity_type = t}})
                /\ \A j, k \in DOMAIN updated_analysis[r] :
                    (j < k /\ updated_analysis[r][j].type = updated_analysis[r][k].type)
                        => Rightmost(r, j) >= Rightmost(r, k)

C9_Witness ==
    \E r \in Requests :
        /\ LoopDone(r)
        /\ Len(updated_analysis[r]) >= 2
        /\ updated_analysis[r][1].type = updated_analysis[r][2].type
        /\ Rightmost(r, 1) > Rightmost(r, 2)
        /\ updated_analysis[r][2].anonymized = <<"<">> \o updated_analysis[r][2].type \o <<"_", "2", ">">>

====
